---- MODULE Spec2Model ----
(***************************************************************************)
(* Model of mongoengine/mongo_proxy.py: the bounded-retry wrapper          *)
(* safe_mongo_call, the call interceptor MongoConn, the resource proxy     *)
(* MongoProxy and the cursor wrapper CursorProxy with its snapshot         *)
(* decorator safe_cursor_call.                                             *)
(*                                                                         *)
(* One caller drives the layer, one operation at a time.  A wrapped call   *)
(* is followed attempt by attempt: pc = "try" is the top of the while      *)
(* loop of closure, pc = "sleep" is time.sleep(retry_interval).  The       *)
(* remote store is the environment: every underlying invocation draws its  *)
(* outcome from the outcomes the store can produce.                        *)
(***************************************************************************)
EXTENDS Integers, Sequences, FiniteSets, TLC

VARIABLES
    pc,          \* "idle" | "try" | "sleep": position of the caller
    op,          \* operation in progress, or the last one when idle
    target,      \* CursorProxy the cursor operation acts on (0: none)
    item,        \* index passed to CursorProxy.__getitem__
    attempts,    \* local variable attempts of closure
    invocations, \* underlying invocations of the wrapped operation in this call
    sleeps,      \* calls of time.sleep in this call
    fails,       \* AutoReconnect failures caught or raised by closure in this call
    rebuilds,    \* executions of self.cursor = save_cursor in this call
    startPos,    \* position of the target's cursor when the call started
    outcome,     \* what the caller saw: [kind, val]
    lastUnder,   \* outcome of the last underlying invocation of this call
    cursor,      \* CursorProxy.cursor of each proxy: a cursor object id (0: no proxy)
    heap,        \* the pymongo cursor objects: id -> [n, pos]
    findHist,    \* outcomes of the underlying conn.find invocations, in order
    findCalls,   \* calls of MongoProxy.find made by the caller
    member,      \* last member access on the MongoProxy and what it yielded
    received,    \* argument the underlying operation got at its last invocation (-1: none)
    spent,       \* some earlier wrapped call of this run used up its retries
    snapFails    \* snapshots self.cursor.clone() that raised AutoReconnect in this call

vars == <<pc, op, target, item, attempts, invocations, sleeps, fails, rebuilds,
          startPos, outcome, lastUnder, cursor, heap, findHist,
          findCalls, member, received, spent, snapFails>>

(* ---------------- bounds of the model ---------------- *)
MaxLen == 3        \* longest query result
MaxVal == 2        \* distinct results an intercepted operation can return
MaxFindCalls == 3  \* underlying find invocations followed
NumIds == 3        \* cursor objects alive at once

(* ---------------- program constants ---------------- *)
max_retries == 10

Proxies == {1, 2}
Ids == 1..NumIds
Args == 0..1
Wrapped == {"call", "next", "getitem"}
Names == {"name", "database", "connection", "find", "insert", "host"}

NoOutcome == [kind |-> "none", val |-> 0]
Null == [n |-> -1, pos |-> -1]
NoMember == [item |-> "", inSet |-> FALSE, callable |-> FALSE, result |-> ""]

Ok(v) == [kind |-> "ok", val |-> v]
Err(k) == [kind |-> k, val |-> 0]

(* ---------------- safe_mongo_call ---------------- *)
\* One pass of the while loop of closure, given the outcome r of
\* call(*args, **kwargs) and the current value of attempts.
closure_offbyone(r, att) ==
    IF r.kind = "ok" THEN [ctl |-> "return", out |-> r]
    ELSE IF r.kind = "AutoReconnect"
         THEN IF max_retries <= att + 1
              THEN [ctl |-> "raise", out |-> r]
              ELSE [ctl |-> "retry", out |-> NoOutcome]
         ELSE [ctl |-> "raise", out |-> r]

closure_extra_retry(r, att) ==
    IF r.kind = "ok" THEN [ctl |-> "return", out |-> r]
    ELSE IF r.kind = "AutoReconnect"
         THEN IF max_retries < att
              THEN [ctl |-> "raise", out |-> r]
              ELSE [ctl |-> "retry", out |-> NoOutcome]
         ELSE [ctl |-> "raise", out |-> r]

closure_retry_all(r, att) ==
    IF r.kind = "ok" THEN [ctl |-> "return", out |-> r]
    ELSE IF max_retries <= att
         THEN [ctl |-> "raise", out |-> r]
         ELSE [ctl |-> "retry", out |-> NoOutcome]

closure_swallow(r, att) ==
    IF r.kind = "ok" THEN [ctl |-> "return", out |-> r]
    ELSE IF r.kind = "AutoReconnect"
         THEN IF max_retries <= att
              THEN [ctl |-> "return", out |-> Ok(0)]
              ELSE [ctl |-> "retry", out |-> NoOutcome]
         ELSE [ctl |-> "raise", out |-> r]

closure(r, att) ==
    IF r.kind = "ok" THEN [ctl |-> "return", out |-> r]
    ELSE IF r.kind = "AutoReconnect"
         THEN IF max_retries <= att
              THEN [ctl |-> "raise", out |-> r]
              ELSE [ctl |-> "retry", out |-> NoOutcome]
         ELSE [ctl |-> "raise", out |-> r]

\* The effect of one pass of the loop on the caller's position and on the
\* locals of closure.
LoopPass_no_sleep(r, invoked) ==
    LET d == closure(r, attempts) IN
    /\ lastUnder' = r
    /\ received' = IF invoked = 1 THEN item ELSE received
    /\ invocations' = invocations + invoked
    /\ snapFails' = snapFails + (1 - invoked)
    /\ fails' = IF r.kind = "AutoReconnect" THEN fails + 1 ELSE fails
    /\ attempts' = IF d.ctl = "retry" THEN attempts + 1 ELSE attempts
    /\ pc' = IF d.ctl = "retry" THEN "try" ELSE "idle"
    /\ outcome' = d.out
    /\ sleeps' = sleeps

LoopPass_no_count(r, invoked) ==
    LET d == closure(r, attempts) IN
    /\ lastUnder' = r
    /\ received' = IF invoked = 1 THEN item ELSE received
    /\ invocations' = IF d.ctl = "retry" THEN invocations ELSE invocations + invoked
    /\ snapFails' = snapFails
    /\ fails' = IF r.kind = "AutoReconnect" /\ d.ctl # "retry" THEN fails + 1 ELSE fails
    /\ attempts' = attempts
    /\ pc' = IF d.ctl = "retry" THEN "sleep" ELSE "idle"
    /\ outcome' = d.out
    /\ sleeps' = sleeps

LoopPass(r, invoked) ==
    LET d == closure(r, attempts) IN
    /\ lastUnder' = r
    /\ received' = IF invoked = 1 THEN item ELSE received
    /\ invocations' = invocations + invoked
    /\ snapFails' = snapFails + (1 - invoked)
    /\ fails' = IF r.kind = "AutoReconnect" THEN fails + 1 ELSE fails
    /\ attempts' = IF d.ctl = "retry" THEN attempts + 1 ELSE attempts
    /\ pc' = IF d.ctl = "retry" THEN "sleep" ELSE "idle"
    /\ outcome' = d.out
    /\ sleeps' = sleeps

\* The call that just ended gave up after max_retries retries.
Exhausted == pc = "idle" /\ op \in Wrapped /\ outcome.kind = "AutoReconnect"

\* Entry into closure: max_retries, retry_interval and attempts are locals
\* of the call.
BeginCall_shared_attempts(o, p, i) ==
    /\ pc = "idle"
    /\ pc' = "try"
    /\ op' = o
    /\ target' = p
    /\ item' = i
    /\ attempts' = (IF Exhausted THEN max_retries ELSE 0)
    /\ invocations' = 0
    /\ sleeps' = 0
    /\ fails' = 0
    /\ rebuilds' = 0
    /\ outcome' = NoOutcome
    /\ lastUnder' = NoOutcome
    /\ member' = NoMember
    /\ received' = -1
    /\ spent' = (spent \/ Exhausted)
    /\ snapFails' = 0

BeginCall(o, p, i) ==
    /\ pc = "idle"
    /\ pc' = "try"
    /\ op' = o
    /\ target' = p
    /\ item' = i
    /\ attempts' = 0
    /\ invocations' = 0
    /\ sleeps' = 0
    /\ fails' = 0
    /\ rebuilds' = 0
    /\ outcome' = NoOutcome
    /\ lastUnder' = NoOutcome
    /\ member' = NoMember
    /\ received' = -1
    /\ spent' = (spent \/ Exhausted)
    /\ snapFails' = 0

\* time.sleep(retry_interval)
Sleep ==
    /\ pc = "sleep"
    /\ pc' = "try"
    /\ sleeps' = sleeps + 1
    /\ UNCHANGED <<op, target, item, attempts, invocations, fails, rebuilds,
                   startPos, outcome, lastUnder, cursor, heap,
                   findHist, findCalls, member, received, spent, snapFails>>

(* ---------------- MongoConn ---------------- *)
\* The outcomes self.method(*args, **kwargs) can have.
MethodOutcomes == {Ok(v) : v \in 1..MaxVal} \cup {Err("AutoReconnect"), Err("OtherError")}

MongoConn_call ==
    /\ \E a \in Args : BeginCall("call", 0, a)
    /\ startPos' = 0
    /\ UNCHANGED <<cursor, heap, findHist, findCalls>>

MongoConn_attempt ==
    /\ pc = "try"
    /\ op = "call"
    /\ \E r \in MethodOutcomes : LoopPass(r, 1)
    /\ UNCHANGED <<op, target, item, rebuilds, startPos, cursor, heap,
                   findHist, findCalls, member, spent>>


\* An operation the layer forwards without the retry wrapper: one underlying
\* invocation whose outcome r is what the caller sees.
Direct(o, p, a, r) ==
    /\ pc = "idle"
    /\ pc' = "idle"
    /\ op' = o
    /\ target' = p
    /\ item' = a
    /\ attempts' = 0
    /\ invocations' = 1
    /\ sleeps' = 0
    /\ fails' = IF r.kind = "AutoReconnect" THEN 1 ELSE 0
    /\ rebuilds' = 0
    /\ startPos' = 0
    /\ outcome' = r
    /\ lastUnder' = r
    /\ member' = NoMember
    /\ received' = a
    /\ spent' = (spent \/ Exhausted)
    /\ snapFails' = 0

(* ---------------- the pymongo cursor objects ---------------- *)
\* Cursor.clone(): same query and options, completely unevaluated.
CursorClone_keep_pos(c) == c

CursorClone(c) == [n |-> c.n, pos |-> 0]

\* Outcomes of cursor.next() on a cursor over the documents 1..n of which
\* pos have been consumed.
NextOutcomes(c) ==
    IF c.pos < c.n
    THEN {Ok(c.pos + 1), Err("AutoReconnect"), Err("OtherError")}
    ELSE {Err("StopIteration"), Err("AutoReconnect")}

\* Outcomes of cursor[i].
GetitemOutcomes(c, i) ==
    IF i < c.n
    THEN {Ok(i + 1), Err("AutoReconnect"), Err("OtherError")}
    ELSE {Err("IndexError"), Err("AutoReconnect")}

Advance(o, c, r) ==
    IF o = "next" /\ r.kind = "ok" THEN [c EXCEPT !.pos = c.pos + 1] ELSE c

Live == {cursor[p] : p \in Proxies}
FreshId == CHOOSE i \in Ids \ Live : \A j \in Ids \ Live : i <= j

\* Cursor objects no proxy refers to are gone.
Collect(cur, h) ==
    [i \in Ids |-> IF i \in {cur[p] : p \in Proxies} THEN h[i] ELSE Null]

(* ---------------- MongoProxy ---------------- *)
\* MongoProxy.find: CursorProxy(self.conn.find(*args, **kwargs)).  The caller
\* runs one query: it calls find until it holds the CursorProxy of the query
\* (proxy 1), at most MaxFindCalls times.
FindOutcomes == {Ok(n) : n \in 0..MaxLen} \cup {Err("AutoReconnect")}

MongoProxy_find_retried ==
    /\ Len(findHist) < MaxFindCalls
    /\ cursor[1] = 0
    /\ \E k \in 0..(MaxFindCalls - Len(findHist) - 1), r \in FindOutcomes :
        /\ Direct("find", 0, 0, r)
        /\ findHist' = findHist \o [j \in 1..k |-> "AutoReconnect"] \o <<r.kind>>
        /\ findCalls' = findCalls + 1
        /\ IF r.kind = "ok"
           THEN /\ cursor' = [cursor EXCEPT ![1] = FreshId]
                /\ heap' = Collect(cursor', [heap EXCEPT ![FreshId] = [n |-> r.val, pos |-> 0]])
           ELSE UNCHANGED <<cursor, heap>>

MongoProxy_find ==
    /\ Len(findHist) < MaxFindCalls
    /\ cursor[1] = 0
    /\ \E r \in FindOutcomes :
        /\ Direct("find", 0, 0, r)
        /\ findHist' = Append(findHist, r.kind)
        /\ findCalls' = findCalls + 1
        /\ IF r.kind = "ok"
           THEN /\ cursor' = [cursor EXCEPT ![1] = FreshId]
                /\ heap' = Collect(cursor', [heap EXCEPT ![FreshId] = [n |-> r.val, pos |-> 0]])
           ELSE UNCHANGED <<cursor, heap>>

\* MongoProxy.__getattr__(item), given whether item is in MONGO_METHODS and
\* whether getattr(self.conn, item) is callable.
getattr_set_first(it, inSet, callable) ==
    IF inSet /\ callable THEN "MongoConn"
    ELSE IF it \in {"name", "database"} THEN "raw"
    ELSE IF it = "connection" THEN "MongoProxy"
    ELSE "raw"

getattr(it, inSet, callable) ==
    IF it \in {"name", "database"} THEN "raw"
    ELSE IF it = "connection" THEN "MongoProxy"
    ELSE IF inSet /\ callable THEN "MongoConn"
    ELSE "raw"

\* proxy.<it>: Python calls __getattr__ only for names the normal lookup
\* does not find; find is a method of MongoProxy itself.
OwnMembers == {"find"}

MemberAccess(it, inSet, callable) ==
    IF it \in OwnMembers THEN "MongoProxy.find" ELSE getattr(it, inSet, callable)

MongoProxy_getattr ==
    /\ pc = "idle"
    /\ \E it \in Names, inSet \in BOOLEAN, callable \in BOOLEAN :
        member' = [item |-> it, inSet |-> inSet, callable |-> callable,
                   result |-> MemberAccess(it, inSet, callable)]
    /\ op' = "getattr"
    /\ target' = 0
    /\ item' = 0
    /\ attempts' = 0
    /\ invocations' = 0
    /\ sleeps' = 0
    /\ fails' = 0
    /\ rebuilds' = 0
    /\ startPos' = 0
    /\ outcome' = NoOutcome
    /\ lastUnder' = NoOutcome
    /\ received' = -1
    /\ spent' = (spent \/ Exhausted)
    /\ snapFails' = 0
    /\ UNCHANGED <<pc, cursor, heap, findHist, findCalls>>

\* MongoProxy.__call__: self.conn(*args, **kwargs)
MongoProxy_call_retried ==
    \E a \in Args, r1 \in MethodOutcomes, r2 \in MethodOutcomes :
        LET again == r1.kind = "AutoReconnect"
            r == IF again THEN r2 ELSE r1 IN
        /\ pc = "idle"
        /\ pc' = "idle"
        /\ op' = "invoke"
        /\ target' = 0
        /\ item' = a
        /\ attempts' = IF again THEN 1 ELSE 0
        /\ invocations' = IF again THEN 2 ELSE 1
        /\ sleeps' = IF again THEN 1 ELSE 0
        /\ fails' = (IF again THEN 1 ELSE 0) + (IF r.kind = "AutoReconnect" THEN 1 ELSE 0)
        /\ rebuilds' = 0
            /\ startPos' = 0
        /\ outcome' = r
        /\ lastUnder' = r
        /\ member' = NoMember
        /\ received' = a
        /\ spent' = (spent \/ Exhausted)
        /\ snapFails' = 0
        /\ UNCHANGED <<cursor, heap, findHist, findCalls>>

MongoProxy_call ==
    /\ \E a \in Args, r \in MethodOutcomes : Direct("invoke", 0, a, r)
    /\ UNCHANGED <<cursor, heap, findHist, findCalls>>

(* ---------------- CursorProxy ---------------- *)
\* safe_cursor_call: what keep_cursor does with the outcome r of
\* call(self, *args, **kwargs): whether self.cursor = save_cursor runs, and
\* what leaves keep_cursor.
keep_cursor_any_failure(r) ==
    [install |-> r.kind # "ok", out |-> r]

keep_cursor_no_install(r) ==
    [install |-> FALSE, out |-> r]

keep_cursor(r) ==
    [install |-> r.kind = "AutoReconnect", out |-> r]

\* CursorProxy.next / CursorProxy.__getitem__: entry into closure.
CursorProxy_next ==
    /\ \E p \in Proxies :
        /\ cursor[p] # 0
        /\ BeginCall("next", p, 0)
        /\ startPos' = heap[cursor[p]].pos
    /\ UNCHANGED <<cursor, heap, findHist, findCalls>>

CursorProxy_getitem ==
    /\ \E p \in Proxies, i \in Args :
        /\ cursor[p] # 0
        /\ BeginCall("getitem", p, i)
        /\ startPos' = heap[cursor[p]].pos
    /\ UNCHANGED <<cursor, heap, findHist, findCalls>>

\* One pass of the loop of closure around keep_cursor: the snapshot
\* self.cursor.clone(), then the advance on self.cursor.
CursorProxy_attempt ==
    /\ pc = "try"
    /\ op \in {"next", "getitem"}
    /\ LET id == cursor[target]
           c == heap[id]
           save == FreshId
       IN  \E r \in (IF op = "next" THEN NextOutcomes(c) ELSE GetitemOutcomes(c, item)) :
             LET k == keep_cursor(r) IN
             /\ LoopPass(k.out, 1)
             /\ IF k.install
                THEN /\ cursor' = [cursor EXCEPT ![target] = save]
                     /\ heap' = Collect(cursor', [heap EXCEPT ![save] = CursorClone(c)])
                     /\ rebuilds' = rebuilds + 1
                ELSE /\ cursor' = cursor
                     /\ heap' = [heap EXCEPT ![id] = Advance(op, c, r)]
                     /\ rebuilds' = rebuilds
    /\ UNCHANGED <<op, target, item, startPos, findHist, findCalls, member, spent>>

\* A pass of the loop in which the snapshot self.cursor.clone() of
\* keep_cursor raises AutoReconnect: it is raised before the try block of
\* keep_cursor and caught by closure.
CursorProxy_snapshot_raises_uncaught ==
    /\ pc = "try"
    /\ op \in {"next", "getitem"}
    /\ pc' = "idle"
    /\ outcome' = Err("AutoReconnect")
    /\ lastUnder' = Err("AutoReconnect")
    /\ fails' = fails + 1
    /\ snapFails' = snapFails + 1
    /\ UNCHANGED <<op, target, item, attempts, invocations, sleeps, rebuilds,
                   startPos, cursor, heap, findHist, findCalls, member,
                   received, spent>>

CursorProxy_snapshot_raises ==
    /\ pc = "try"
    /\ op \in {"next", "getitem"}
    /\ LoopPass(Err("AutoReconnect"), 0)
    /\ UNCHANGED <<op, target, item, rebuilds, startPos, cursor, heap,
                   findHist, findCalls, member, spent>>

\* CursorProxy.clone: CursorProxy(self.cursor.clone())
CursorProxy_clone_shared ==
    \E p \in Proxies, r \in {Ok(0), Err("AutoReconnect")} :
        /\ cursor[p] # 0
        /\ Direct("clone", p, 0, r)
        /\ IF r.kind = "ok"
           THEN /\ cursor' = [cursor EXCEPT ![3 - p] = cursor[p]]
                /\ heap' = Collect(cursor', heap)
           ELSE UNCHANGED <<cursor, heap>>
        /\ UNCHANGED <<findHist, findCalls>>

CursorProxy_clone ==
    \E p \in Proxies, r \in {Ok(0), Err("AutoReconnect")} :
        /\ cursor[p] # 0
        /\ Direct("clone", p, 0, r)
        /\ IF r.kind = "ok"
           THEN /\ cursor' = [cursor EXCEPT ![3 - p] = FreshId]
                /\ heap' = Collect(cursor', [heap EXCEPT ![FreshId] = CursorClone(heap[cursor[p]])])
           ELSE UNCHANGED <<cursor, heap>>
        /\ UNCHANGED <<findHist, findCalls>>

Init ==
    /\ pc = "idle"
    /\ op = "none"
    /\ target = 0
    /\ item = 0
    /\ attempts = 0
    /\ invocations = 0
    /\ sleeps = 0
    /\ fails = 0
    /\ rebuilds = 0
    /\ startPos = 0
    /\ outcome = NoOutcome
    /\ lastUnder = NoOutcome
    /\ cursor = [p \in Proxies |-> 0]
    /\ heap = [i \in Ids |-> Null]
    /\ findHist = <<>>
    /\ findCalls = 0
    /\ member = NoMember
    /\ received = -1
    /\ spent = FALSE
    /\ snapFails = 0

Next ==
    \/ MongoConn_call
    \/ MongoConn_attempt
    \/ Sleep
    \/ MongoProxy_find
    \/ MongoProxy_getattr
    \/ MongoProxy_call
    \/ CursorProxy_next
    \/ CursorProxy_getitem
    \/ CursorProxy_attempt
    \/ CursorProxy_clone

Spec == Init /\ [][Next]_vars

\* The CursorProxy against a store whose cursors can also raise AutoReconnect
\* from clone().
NextSnapshot ==
    \/ MongoProxy_find
    \/ CursorProxy_next
    \/ CursorProxy_getitem
    \/ CursorProxy_attempt
    \/ CursorProxy_snapshot_raises
    \/ CursorProxy_clone
    \/ Sleep

SpecSnapshot == Init /\ [][NextSnapshot]_vars

\* Every underlying invocation and every sleep returns: a call that is in
\* its loop goes on to its next invocation or sleep.
LiveSpec ==
    /\ Spec
    /\ WF_vars(MongoConn_attempt)
    /\ WF_vars(CursorProxy_attempt)
    /\ WF_vars(Sleep)
(* ======================= properties ======================= *)
Failure(k) == k \notin {"ok", "none"}

\* C1: a call through MongoConn whose method fails with AutoReconnect k
\* times, 0 <= k <= 10, and then succeeds returns the result of that
\* (k+1)-th invocation, after exactly k+1 invocations made with the caller's
\* arguments; the wrapper never gives up after 10 or fewer failures.
C1_BoundedRetry ==
    op = "call" =>
        /\ lastUnder.kind = "ok" =>
              /\ pc = "idle"
              /\ outcome = lastUnder
              /\ invocations = fails + 1
              /\ fails <= max_retries
              /\ received = item
        /\ (pc = "idle" /\ lastUnder.kind = "AutoReconnect") => fails > max_retries

C1_Witness ==
    /\ pc = "idle" /\ op = "call"
    /\ outcome = Ok(MaxVal)
    /\ fails = max_retries
    /\ invocations = max_retries + 1

\* C2: a wrapped call whose operation fails with AutoReconnect on every
\* invocation raises AutoReconnect after exactly 11 invocations; no wrapped
\* call ever makes a 12th invocation.
C2_Exhaustion ==
    op \in Wrapped =>
        /\ invocations <= max_retries + 1
        /\ (pc = "idle" /\ outcome.kind = "AutoReconnect") =>
              (invocations = max_retries + 1 /\ fails = invocations)
        /\ (fails = max_retries + 1) =>
              (pc = "idle" /\ outcome.kind = "AutoReconnect")

C2_Witness ==
    /\ pc = "idle" /\ op = "call"
    /\ outcome.kind = "AutoReconnect"
    /\ invocations = 11
    /\ fails = 11

\* C3: when the operation of a wrapped call fails with a failure other than
\* AutoReconnect, the call ends at once with that failure: no retry and no
\* sleep follow it, so a call whose first invocation fails this way has made
\* exactly 1 invocation and has not slept; AutoReconnect failures that came
\* before it in the same call account only for the earlier attempts.
C3_NoRetryOnOther ==
    (op \in Wrapped /\ Failure(lastUnder.kind) /\ lastUnder.kind # "AutoReconnect") =>
        /\ pc = "idle"
        /\ outcome = lastUnder
        /\ invocations = fails + 1
        /\ sleeps = fails
        /\ attempts = fails

C3_Witness ==
    /\ pc = "idle" /\ op = "call"
    /\ outcome.kind = "OtherError"
    /\ invocations = 1
    /\ sleeps = 0

\* C4: on a CursorProxy over [1,2,3] from which 1 has been consumed, a next()
\* whose underlying advance failed with AutoReconnect and was then retried
\* with success yields 2.
C4_IteratorRecovery ==
    ( /\ pc = "idle" /\ op = "next"
      /\ startPos = 1
      /\ heap[cursor[target]].n = 3
      /\ rebuilds >= 1
      /\ outcome.kind = "ok" ) => outcome.val = 2

\* C5: when next() or indexed access on a CursorProxy raises AutoReconnect to
\* the caller, the proxy's cursor is positioned as it was before that call.
C5_PositionKeptOnFailure ==
    (pc = "idle" /\ op \in {"next", "getitem"} /\ outcome.kind = "AutoReconnect") =>
        heap[cursor[target]].pos = startPos

C7_OutcomeFaithful ==
    (pc = "idle" /\ op \in Wrapped) =>
        /\ invocations >= 1
        /\ outcome.kind # "none"
        /\ outcome = lastUnder

C7_Witness ==
    /\ pc = "idle" /\ op = "next"
    /\ outcome.kind = "AutoReconnect"
    /\ lastUnder.kind = "AutoReconnect"
    /\ invocations = max_retries + 1

\* C8: CursorProxy.clone returns a new proxy over a cursor of its own that
\* has the same query and stands before the first document, and leaves the
\* cloned proxy's cursor and position as they were; an advance on one proxy
\* changes neither the cursor nor the position of the other.
C8_CloneStep ==
    (pc = "idle" /\ op' = "clone" /\ outcome'.kind = "ok") =>
        LET p == target'
            q == 3 - target' IN
        /\ cursor'[q] # 0
        /\ cursor'[q] # cursor'[p]
        /\ heap'[cursor'[q]] = [n |-> heap[cursor[p]].n, pos |-> 0]
        /\ cursor'[p] = cursor[p]
        /\ heap'[cursor'[p]] = heap[cursor[p]]

C8_AdvanceStep ==
    (pc = "try" /\ op \in {"next", "getitem"}) =>
        LET q == 3 - target IN
        /\ cursor'[q] = cursor[q]
        /\ cursor[q] # 0 => heap'[cursor[q]] = heap[cursor[q]]

C8_CloneIndependent == [][C8_CloneStep /\ C8_AdvanceStep]_vars

C8_Witness ==
    /\ pc = "idle" /\ op = "clone" /\ outcome.kind = "ok"
    /\ heap[cursor[target]].pos = 2
    /\ heap[cursor[3 - target]] = [n |-> heap[cursor[target]].n, pos |-> 0]

C10_ProxyCallNotRetried ==
    op = "invoke" =>
        /\ pc = "idle"
        /\ invocations = 1
        /\ attempts = 0
        /\ sleeps = 0
        /\ received = item
        /\ outcome = lastUnder

C10_Witness ==
    /\ pc = "idle" /\ op = "invoke"
    /\ outcome.kind = "AutoReconnect"
    /\ invocations = 1
    /\ sleeps = 0
CursorOps == {"next", "getitem"}

\* C11: within one advance call on a CursorProxy the proxy's cursor is
\* replaced by a rebuilt one only when the call ends by raising AutoReconnect
\* after its retries; a call that succeeds after AutoReconnect failures
\* returns with the cursor it held when it started.
C11_RebuildOnlyOnExhaustion ==
    (pc = "idle" /\ op \in CursorOps /\ rebuilds > 0) =>
        outcome.kind = "AutoReconnect"

\* C12: when the underlying advance of a CursorProxy call fails with a
\* failure other than AutoReconnect, the call ends at that invocation with
\* that failure and that attempt installs no rebuilt cursor; a call whose
\* advance fails this way on its first invocation has made exactly 1
\* invocation and still holds the cursor object it started with.
C12_OtherFailureNoRebuild ==
    (op \in CursorOps /\ Failure(lastUnder.kind) /\ lastUnder.kind # "AutoReconnect") =>
        /\ pc = "idle"
        /\ outcome = lastUnder
        /\ invocations = fails + 1
        /\ rebuilds = fails
        /\ fails = 0 => (invocations = 1 /\ rebuilds = 0
                         /\ heap[cursor[target]].pos = startPos)

C12_Witness ==
    /\ pc = "idle" /\ op = "next"
    /\ outcome.kind = "OtherError"
    /\ invocations = 1
    /\ rebuilds = 0
    /\ startPos = 1
    /\ heap[cursor[target]].pos = 1

\* C13: StopIteration raised by the underlying cursor reaches the caller of
\* next() as StopIteration at that invocation, with no retry, no sleep and no
\* replacement of the cursor after it, so the cursor stays exhausted; a
\* next() on an exhausted proxy in which no AutoReconnect occurs raises
\* StopIteration again.
C13_ExhaustionPassedThrough ==
    /\ (op = "next" /\ lastUnder.kind = "StopIteration") =>
          /\ pc = "idle"
          /\ outcome = Err("StopIteration")
          /\ invocations = fails + 1
          /\ sleeps = fails
          /\ rebuilds = fails
          /\ heap[cursor[target]].pos = heap[cursor[target]].n
    /\ (pc = "idle" /\ op = "next" /\ fails = 0
        /\ startPos = heap[cursor[target]].n) =>
          /\ outcome.kind = "StopIteration"
          /\ invocations = 1
          /\ heap[cursor[target]].pos = startPos

C13_Witness ==
    /\ pc = "idle" /\ op = "next"
    /\ outcome.kind = "StopIteration"
    /\ invocations = 1 /\ sleeps = 0 /\ rebuilds = 0
    /\ startPos = MaxLen
    /\ heap[cursor[target]] = [n |-> MaxLen, pos |-> MaxLen]

\* C14: in a wrapped call sleeps and invocations alternate: before an
\* invocation as many sleeps as invocations have happened, after it one less;
\* a call that ended with n invocations has slept n-1 times, at most 10.
C14_SleepsAlternate ==
    op \in Wrapped =>
        /\ sleeps <= max_retries
        /\ pc = "try" => sleeps = invocations
        /\ pc = "sleep" => invocations = sleeps + 1
        /\ pc = "idle" => invocations = sleeps + 1

C14_Witness ==
    /\ pc = "idle" /\ op = "call"
    /\ invocations = max_retries + 1
    /\ sleeps = max_retries

\* C15: a call of MongoProxy.find makes exactly one underlying find
\* invocation and ends with it: an AutoReconnect is raised to the caller
\* with no retry, no sleep and no CursorProxy created, a success gives a
\* CursorProxy around the cursor that invocation returned.
C15_FindStep ==
    (pc = "idle" /\ op' = "find") =>
        /\ pc' = "idle"
        /\ findHist' = Append(findHist, outcome'.kind)
        /\ invocations' = 1
        /\ sleeps' = 0
        /\ IF outcome'.kind = "ok"
           THEN /\ cursor'[1] # 0
                /\ heap'[cursor'[1]] = [n |-> outcome'.val, pos |-> 0]
           ELSE /\ outcome'.kind = "AutoReconnect"
                /\ cursor' = cursor
                /\ heap' = heap

C17_FinalAttempt ==
    (pc = "try" /\ op \in CursorOps /\ pc' = "idle" /\ outcome'.kind = "AutoReconnect") =>
        /\ cursor'[target] # cursor[target]
        /\ heap'[cursor'[target]] = [n |-> heap[cursor[target]].n, pos |-> 0]
        /\ rebuilds' = rebuilds + 1

C18_BudgetPerCall ==
    op \in Wrapped =>
        /\ invocations = 0 => attempts = 0
        /\ attempts = fails - (IF Exhausted THEN 1 ELSE 0)
        /\ (spent /\ Exhausted) => invocations = max_retries + 1

C18_Witness ==
    /\ spent
    /\ pc = "idle" /\ op = "next"
    /\ outcome.kind = "ok"
    /\ fails = max_retries
    /\ invocations = max_retries + 1
\* C16: every call routed through the layer ends: a call that is in its
\* retry loop eventually returns or raises to the caller, also against a
\* store that fails with AutoReconnect forever, because every retry uses up
\* one of the max_retries retries of the call.
C16_RetryCounts ==
    (pc = "try" /\ pc' = "sleep") =>
        (attempts' = attempts + 1 /\ attempts' <= max_retries)

C16_CallsTerminate ==
    /\ (pc # "idle") ~> (pc = "idle")
    /\ [][C16_RetryCounts]_vars

C16_Witness ==
    /\ pc = "idle" /\ op = "getitem"
    /\ outcome.kind = "AutoReconnect"
    /\ fails = max_retries + 1
    /\ sleeps = max_retries
\* C19: an attempt of a CursorProxy call whose snapshot raises AutoReconnect
\* leaves the proxy's cursor as it was and does not invoke the underlying
\* advance; closure handles it as one attempt: it sleeps and retries while
\* fewer than 10 retries have been made and raises it otherwise, so snapshots
\* and advances together are attempted at most 11 times in a call.
C19_SnapshotStep ==
    (pc = "try" /\ op \in CursorOps /\ snapFails' = snapFails + 1) =>
        /\ cursor' = cursor
        /\ heap' = heap
        /\ invocations' = invocations
        /\ rebuilds' = rebuilds
        /\ IF attempts < max_retries
           THEN pc' = "sleep" /\ attempts' = attempts + 1
           ELSE pc' = "idle" /\ outcome' = Err("AutoReconnect")

C19_OneBudget ==
    op \in CursorOps =>
        /\ invocations + snapFails <= max_retries + 1
        /\ Exhausted => fails = max_retries + 1
        /\ sleeps <= max_retries

C19_SnapshotFailure == [][C19_SnapshotStep]_vars /\ []C19_OneBudget

C19_Witness ==
    /\ pc = "idle" /\ op = "next"
    /\ outcome.kind = "AutoReconnect"
    /\ snapFails = max_retries + 1
    /\ invocations = 0
    /\ startPos = 1
    /\ heap[cursor[target]].pos = 1
====
